---- MODULE Spec2Model ----
(***************************************************************************)
(* A model of the DPP filename tools: fix_dpp_filenames.py, dpp_cleanup.py *)
(* and auto_fix_dashboard_mapping.py.                                      *)
(*                                                                         *)
(* A file name is a sequence of characters; a character is a one-letter    *)
(* string, or an upper-case token for a character outside ASCII.           *)
(***************************************************************************)
EXTENDS Integers, Sequences, FiniteSets, TLC

(***************************************************************************)
(* Characters                                                              *)
(***************************************************************************)
EM_DASH == "EM_DASH"
EN_DASH == "EN_DASH"
FIGURE_DASH == "FIGURE_DASH"
HORIZONTAL_BAR == "HORIZONTAL_BAR"
RIGHT_SINGLE_QUOTE == "RIGHT_SINGLE_QUOTE"
LEFT_DOUBLE_QUOTE == "LEFT_DOUBLE_QUOTE"
RIGHT_DOUBLE_QUOTE == "RIGHT_DOUBLE_QUOTE"
\* characters with a compatibility decomposition (unicodedata NFKC)
FULLWIDTH_FULL_STOP == "FULLWIDTH_FULL_STOP"
HORIZONTAL_ELLIPSIS == "HORIZONTAL_ELLIPSIS"
NO_BREAK_SPACE == "NO_BREAK_SPACE"

UpperCase == <<"A", "B", "C", "D", "E", "F", "G", "H", "I", "J", "K", "L", "M",
               "N", "O", "P", "Q", "R", "S", "T", "U", "V", "W", "X", "Y", "Z">>
LowerCase == <<"a", "b", "c", "d", "e", "f", "g", "h", "i", "j", "k", "l", "m",
               "n", "o", "p", "q", "r", "s", "t", "u", "v", "w", "x", "y", "z">>
Digits == <<"0", "1", "2", "3", "4", "5", "6", "7", "8", "9">>

Range(s) == {s[i] : i \in DOMAIN s}

UpperCaseLetters == Range(UpperCase)

\* str.isspace() / the regex class \s, on the characters of the model
Whitespace == {" ", "\t", "\n"}

\* the regex class [a-z0-9\-.]
SlugChars == Range(LowerCase) \cup Range(Digits) \cup {"-", "."}

(***************************************************************************)
(* String helpers, as Python computes them                                 *)
(***************************************************************************)
\* str.lower() on one character
lower_char(c) ==
    IF c \in UpperCaseLetters
    THEN LowerCase[CHOOSE i \in DOMAIN UpperCase : UpperCase[i] = c]
    ELSE c

\* str.lower()
lower(s) == [i \in DOMAIN s |-> lower_char(s[i])]

\* unicodedata.normalize("NFKC", .) on one character
nfkc_char(c) ==
    CASE c = FULLWIDTH_FULL_STOP -> <<".">>
      [] c = HORIZONTAL_ELLIPSIS -> <<".", ".", ".">>
      [] c = NO_BREAK_SPACE -> <<" ">>
      [] OTHER -> <<c>>

\* the concatenation of nfkc_char over s[lo..hi]
RECURSIVE nfkc_range(_, _, _)
nfkc_range(s, lo, hi) ==
    IF lo > hi THEN <<>>
    ELSE IF lo = hi THEN nfkc_char(s[lo])
    ELSE LET mid == (lo + hi) \div 2
         IN nfkc_range(s, lo, mid) \o nfkc_range(s, mid + 1, hi)

\* unicodedata.normalize("NFKC", s)
uni_normalize(s) == nfkc_range(s, 1, Len(s))

\* str.strip(chars): drop the characters of cs from both ends
strip(s, cs) ==
    LET kept == {i \in DOMAIN s : s[i] \notin cs}
    IN IF kept = {} THEN <<>>
       ELSE SubSeq(s, CHOOSE i \in kept : \A j \in kept : i <= j,
                      CHOOSE i \in kept : \A j \in kept : j <= i)

\* str.replace(k, v) for a one-character k, on s[lo..hi]
RECURSIVE replace_range(_, _, _, _, _)
replace_range(s, k, v, lo, hi) ==
    IF lo > hi THEN <<>>
    ELSE IF lo = hi THEN (IF s[lo] = k THEN v ELSE <<s[lo]>>)
    ELSE LET mid == (lo + hi) \div 2
         IN replace_range(s, k, v, lo, mid) \o replace_range(s, k, v, mid + 1, hi)

\* str.replace(k, v) for a one-character k
replace(s, k, v) == replace_range(s, k, v, 1, Len(s))

\* re.sub(<minlen or more characters of cs>, "-", s): each maximal run of
\* characters of cs that is at least minlen long becomes one "-"
sub_runs(s, cs, minlen) ==
    LET in_run(i) == s[i] \in cs
        first(i) == CHOOSE j \in 1..i :
                        /\ \A k \in j..i : in_run(k)
                        /\ j = 1 \/ ~in_run(j - 1)
        last(i) == CHOOSE j \in i..Len(s) :
                        /\ \A k \in i..j : in_run(k)
                        /\ j = Len(s) \/ ~in_run(j + 1)
        replaced(i) == in_run(i) /\ last(i) - first(i) + 1 >= minlen
        marked == [i \in DOMAIN s |->
                     [c |-> IF replaced(i) THEN "-" ELSE s[i],
                      keep |-> ~replaced(i) \/ first(i) = i]]
        kept == SelectSeq(marked, LAMBDA m : m.keep)
    IN [i \in DOMAIN kept |-> kept[i].c]

\* re.sub(r"[^a-z0-9\-.]", "", s)
keep_slug_chars(s) == SelectSeq(s, LAMBDA c : c \in SlugChars)

\* last index of character c in s, 0 when absent (str.rfind, 1-based)
rfind(s, c) ==
    IF \E i \in DOMAIN s : s[i] = c
    THEN CHOOSE i \in DOMAIN s : s[i] = c /\ \A j \in DOMAIN s : s[j] = c => j <= i
    ELSE 0

\* os.path.splitext (posixpath): the extension starts at the last dot after the
\* last "/", unless only dots come before it in that path component
splitext(p) ==
    LET sepIndex == rfind(p, "/")
        dotIndex == rfind(p, ".")
    IN IF dotIndex > sepIndex /\ \E i \in (sepIndex + 1)..(dotIndex - 1) : p[i] # "."
       THEN <<SubSeq(p, 1, dotIndex - 1), SubSeq(p, dotIndex, Len(p))>>
       ELSE <<p, <<>>>>

\* str(i) for i >= 0
RECURSIVE str(_)
str(i) == IF i < 10 THEN <<Digits[i + 1]>> ELSE str(i \div 10) \o <<Digits[(i % 10) + 1]>>

(***************************************************************************)
(* slugify_filename                                                        *)
(***************************************************************************)
\* the replacements dict, in insertion order
replacements == <<
    <<"&", <<" ", "a", "n", "d", " ">>>>,
    <<EM_DASH, <<"-">>>>, <<EN_DASH, <<"-">>>>, <<FIGURE_DASH, <<"-">>>>,
    <<HORIZONTAL_BAR, <<"-">>>>,
    <<"_", <<"-">>>>, <<"/", <<"-">>>>, <<":", <<"-">>>>, <<";", <<"-">>>>,
    <<",", <<"-">>>>, <<"+", <<"-">>>>, <<"#", <<"-">>>>, <<"@", <<"-">>>>,
    <<"!", <<>>>>, <<"?", <<>>>>, <<"'", <<>>>>, <<"\"", <<>>>>,
    <<RIGHT_SINGLE_QUOTE, <<>>>>, <<LEFT_DOUBLE_QUOTE, <<>>>>,
    <<RIGHT_DOUBLE_QUOTE, <<>>>>,
    <<"(", <<"-">>>>, <<")", <<"-">>>>, <<"[", <<"-">>>>, <<"]", <<"-">>>>,
    <<"{", <<"-">>>>, <<"}", <<"-">>>>, <<"|", <<"-">>>>, <<"\\", <<"-">>>> >>

\* for k, v in replacements.items(): s = s.replace(k, v)
RECURSIVE apply_replacements(_, _)
apply_replacements(s, i) ==
    IF i > Len(replacements) \/ s = <<>> THEN s
    ELSE apply_replacements(replace(s, replacements[i][1], replacements[i][2]), i + 1)

HtmlExts == {<<".", "h", "t", "m", "l">>, <<".", "h", "t", "m">>}

normalize_ext(ext) ==
    IF lower(ext) \in HtmlExts THEN <<".", "h", "t", "m", "l">> ELSE lower(ext)

slugify_base(base) ==
    LET s1 == lower(strip(uni_normalize(base), Whitespace))
        s2 == apply_replacements(s1, 1)
        s3 == sub_runs(s2, Whitespace, 1)
        s4 == keep_slug_chars(s3)
        s5 == sub_runs(s4, {"-"}, 2)
        s6 == strip(s5, {"-", "."})
    IN IF s6 = <<>> THEN <<"f", "i", "l", "e">> ELSE s6

slugify(name) ==
    LET parts == splitext(name)
    IN slugify_base(parts[1]) \o normalize_ext(parts[2])

(***************************************************************************)
(* Program constants and the names used on disk and in the mapping table   *)
(***************************************************************************)
DASHBOARD_FILE == <<"R", "a", "b", "a", "t", "e", "k", "s", "D", "P", "P", "D", "a", "s", "h", "b", "o", "a", "r", "d", ".", "h", "t", "m", "l">>
BACKUP_SUFFIX == <<".", "b", "a", "c", "k", "u", "p">>
OLD_DIR == <<"O", "L", "D", "_", "F", "I", "L", "E", "S">>
TARGET_FILENAME == <<"r", "a", "b", "a", "t", "e", "k", "s", "-", "d", "p", "p", "-", "r", "e", "t", "a", "i", "l", "-", "d", "i", "s", "t", "r", "i", "b", "u", "t", "i", "o", "n", "-", "m", "a", "n", "a", "g", "e", "m", "e", "n", "t", ".", "h", "t", "m", "l">>
old_variants == {
    <<"R", "a", "b", "a", "t", "e", "k", "s", " ", "D", "P", "P", " ", EM_DASH, " ", "R", "e", "t", "a", "i", "l", "/", "D", "i", "s", "t", "r", "i", "b", "u", "t", "i", "o", "n", " ", "M", "a", "n", "a", "g", "e", "m", "e", "n", "t", ".", "h", "t", "m", "l">>,
    <<"R", "a", "b", "a", "t", "e", "k", "s", " ", "D", "P", "P", " ", EM_DASH, " ", "R", "e", "t", "a", "i", "l", ":", "D", "i", "s", "t", "r", "i", "b", "u", "t", "i", "o", "n", " ", "M", "a", "n", "a", "g", "e", "m", "e", "n", "t", ".", "h", "t", "m", "l">>,
    <<"R", "a", "b", "a", "t", "e", "k", "s", " ", "D", "P", "P", " ", "-", " ", "R", "e", "t", "a", "i", "l", "/", "D", "i", "s", "t", "r", "i", "b", "u", "t", "i", "o", "n", " ", "M", "a", "n", "a", "g", "e", "m", "e", "n", "t", ".", "h", "t", "m", "l">>,
    <<"R", "a", "b", "a", "t", "e", "k", "s", " ", "D", "P", "P", " ", "-", " ", "R", "e", "t", "a", "i", "l", ":", "D", "i", "s", "t", "r", "i", "b", "u", "t", "i", "o", "n", " ", "M", "a", "n", "a", "g", "e", "m", "e", "n", "t", ".", "h", "t", "m", "l">> }

backup_path == DASHBOARD_FILE \o BACKUP_SUFFIX

\* the files a starting directory may hold
ReportFinalLower == <<"R", "e", "p", "o", "r", "t", " ", "(", "f", "i", "n", "a", "l", ")", ".", "h", "t", "m", "l">>
ReportFinalUpper == <<"R", "e", "p", "o", "r", "t", " ", "(", "F", "I", "N", "A", "L", ")", ".", "h", "t", "m", "l">>
ReportSlug == <<"r", "e", "p", "o", "r", "t", "-", "f", "i", "n", "a", "l", ".", "h", "t", "m", "l">>
NotesTxt == <<"N", "o", "t", "e", "s", ".", "T", "X", "T">>

HtmlNames == {ReportFinalLower, ReportFinalUpper, ReportSlug}
DiskNames == HtmlNames \cup {NotesTxt}

\* slugify_filename is a pure function: its values on the names that the files
\* of the model can have are computed once (by slugify) and looked up afterwards
MetNames ==
    DiskNames \cup {DASHBOARD_FILE, backup_path, OLD_DIR}
    \cup {SubSeq(ReportSlug, 1, 12) \o <<"-", d>> \o SubSeq(ReportSlug, 13, 17) :
            d \in {"2", "3", "4"}}

SlugOfMetName == {<<n, slugify(n)>> : n \in MetNames}

slug_lookup(met, name) ==
    IF met = {} THEN slugify(name) ELSE (CHOOSE p \in met : TRUE)[2]

slugify_filename(name) == slug_lookup({p \in SlugOfMetName : p[1] = name}, name)

(***************************************************************************)
(* The file system: files maps each regular file of the working directory, *)
(* other than the dashboard and its backup, to its content; a content is   *)
(* the name the file had in the starting directory.                        *)
(***************************************************************************)
Remove(f, k) == [n \in DOMAIN f \ {k} |-> f[n]]
Put(f, k, v) == [n \in DOMAIN f \cup {k} |-> IF n = k THEN v ELSE f[n]]

\* os.path.exists in the working directory
present_names(fs, dash, bak, od) ==
    DOMAIN fs
    \cup (IF dash # <<>> THEN {DASHBOARD_FILE} ELSE {})
    \cup (IF bak # <<>> THEN {backup_path} ELSE {})
    \cup (IF od THEN {OLD_DIR} ELSE {})

\* str.endswith
endswith(s, suffix) ==
    Len(s) >= Len(suffix) /\ SubSeq(s, Len(s) - Len(suffix) + 1, Len(s)) = suffix

\* f.lower().endswith((".html", ".htm"))
is_html(f) == LET l == lower(f) IN \E e \in HtmlExts : endswith(l, e)

\* os.listdir filtered to regular files with an HTML extension
html_files(fs, dash) ==
    {f \in DOMAIN fs : is_html(f)} \cup (IF dash # <<>> THEN {DASHBOARD_FILE} ELSE {})

\* the orders in which os.listdir may enumerate a set of files
Listings(S) ==
    {o \in [1..Cardinality(S) -> S] : \A i, j \in 1..Cardinality(S) : o[i] = o[j] => i = j}

\* base-i.ext for the first i >= 2 whose name is not in taken (the while loops)
RECURSIVE next_free(_, _, _, _)
next_free(base, ext, i, taken) ==
    LET candidate == base \o <<"-">> \o str(i) \o ext
    IN IF candidate \in taken THEN next_free(base, ext, i + 1, taken) ELSE candidate

suffixed(parts, taken) == next_free(parts[1], parts[2], 2, taken)

\* base, ext = os.path.splitext(name), then the loop
with_suffix(name, taken) == suffixed(splitext(name), taken)

\* dict.get on an insertion-ordered dict kept as a sequence of <<key, value>>
has_key(d, k) == \E i \in DOMAIN d : d[i][1] = k
get(d, k) == d[CHOOSE i \in DOMAIN d : d[i][1] = k][2]

(***************************************************************************)
(* Planning                                                                *)
(***************************************************************************)
\* fix_dpp_filenames.py: the target of one file, suffixed when it exists on disk
resolved(old, new, present) ==
    IF new # old /\ new \in present THEN with_suffix(new, present) ELSE new

fix_target(old, present) == resolved(old, slugify_filename(old), present)

\* if new != old: rename_map[old] = new
planned(old, new) == IF new # old THEN <<<<old, new>>>> ELSE <<>>

\* fix_dpp_filenames.py: rename_map over the listing, in listing order
RECURSIVE fix_rename_map(_, _)
fix_rename_map(targets, present) ==
    IF targets = <<>> THEN <<>>
    ELSE planned(Head(targets), fix_target(Head(targets), present))
         \o fix_rename_map(Tail(targets), present)

\* dpp_cleanup.py: rename_map over the listing, in listing order
RECURSIVE cleanup_rename_map(_)
cleanup_rename_map(targets) ==
    IF targets = <<>> THEN <<>>
    ELSE planned(Head(targets), slugify_filename(Head(targets)))
         \o cleanup_rename_map(Tail(targets))

\* dpp_cleanup.py: conflicts, one per entry of rename_map whose target exists
RECURSIVE cleanup_conflicts(_, _)
cleanup_conflicts(rm, present) ==
    IF rm = <<>> THEN <<>>
    ELSE (IF Head(rm)[2] \in present THEN <<Head(rm)[2]>> ELSE <<>>)
         \o cleanup_conflicts(Tail(rm), present)

\* the plan of either script
rename_map_of(s, order, present) ==
    IF s = "fix" THEN fix_rename_map(order, present) ELSE cleanup_rename_map(order)

\* only dpp_cleanup.py collects conflicts
conflicts_of(s, rm, present) ==
    IF s = "cleanup" THEN cleanup_conflicts(rm, present) ELSE <<>>

(***************************************************************************)
(* The dashboard document: the declaration introducer ("const" or another  *)
(* keyword) and the entries of the dppUrls object literal. An entry is     *)
(* key : q val q, the key quoted or bare.                                  *)
(***************************************************************************)
Entry(key, kq, q, val) == [key |-> key, kq |-> kq, q |-> q, val |-> val]

\* find_dpp_urls_block: the body is found when the text reads const dppUrls = {...};
find_dpp_urls_block(doc) == doc.intro = "const"

\* the values of the string literals of the body: every value, and every quoted key
referenced(body) ==
    {body[i].val : i \in DOMAIN body}
    \cup {body[i].key : i \in {j \in DOMAIN body : body[j].kq}}

\* mapping_for_block, as a set of <<ref, new>>
mapping_for_block_of(body, rm, present) ==
    {<<ref, get(rm, ref)>> : ref \in {r \in referenced(body) : has_key(rm, r)}}
    \cup {p \in {<<ref, slugify_filename(ref)>> :
                   ref \in {r \in referenced(body) : ~has_key(rm, r) /\ r \in present}} :
            p[2] # p[1]}

\* rename_map.get(val, val)
map_value(m, val) ==
    IF \E p \in m : p[1] = val THEN (CHOOSE p \in m : p[1] = val)[2] ELSE val

\* replace_urls_in_block: every literal keeps its quote and gets its mapped value
replace_urls_in_block(body, m) ==
    [i \in DOMAIN body |->
        [body[i] EXCEPT !.val = map_value(m, body[i].val),
                        !.key = IF body[i].kq THEN map_value(m, @) ELSE @]]

RetailKey == <<"r", "e", "t", "a", "i", "l">>

\* auto_fix_dashboard_mapping.py: the retail pattern, then the old variants
auto_fix_body(body) ==
    [i \in DOMAIN body |->
        IF (body[i].kq /\ body[i].key = RetailKey) \/ body[i].val \in old_variants
        THEN [body[i] EXCEPT !.val = TARGET_FILENAME]
        ELSE body[i]]

(***************************************************************************)
(* Steps of the scripts on the file system                                 *)
(***************************************************************************)
\* a slip: the --dry-run flag is not consulted before moving files
quarantine_even_when_dry(is_dry, cf) == cf # <<>>

\* dpp_cleanup.py: if not dry and conflicts
needs_quarantine(is_dry, cf) == ~is_dry /\ cf # <<>>

\* dpp_cleanup.py: the destination of a conflicting file inside OLD_FILES
quarantine_dst(c, old) == IF c \in DOMAIN old THEN with_suffix(c, DOMAIN old) ELSE c

\* fix_dpp_filenames.py: os.rename(old, new) goes to the planned name
fix_destination(new, present) == new

\* dpp_cleanup.py: the planned name, suffixed when it exists at rename time
cleanup_destination(new, present) ==
    IF new \in present THEN with_suffix(new, present) ELSE new

destination(s, new, present) ==
    IF s = "cleanup" THEN cleanup_destination(new, present)
    ELSE fix_destination(new, present)

\* os.rename(old, dst): dst is replaced when it exists
os_rename(fs, old, dst) == Put(Remove(fs, old), dst, fs[old])

\* a slip: the backup is copied on every run, over an existing one
backup_copy_every_run(bak, dash) == dash

\* shutil.copy2(DASHBOARD_FILE, backup_path) unless the backup exists
backup_copy(bak, dash) == IF bak = <<>> THEN dash ELSE bak

\* the new text of the dashboard: the body spliced back between start and end
spliced(doc, m) == [doc EXCEPT !.body = replace_urls_in_block(@, m)]

\* the rename loop as a whole, from the files fs
RECURSIVE apply_renames(_, _, _, _, _, _)
apply_renames(s, fs, rm, dash, bak, od) ==
    IF rm = <<>> THEN fs
    ELSE LET dst == destination(s, Head(rm)[2], present_names(fs, dash, bak, od))
         IN apply_renames(s, os_rename(fs, Head(rm)[1], dst), Tail(rm), dash, bak, od)

\* the files an apply run of script s leaves when the listing comes in this
\* order and no step raises
outcome_of_plan(s, rm, cf, fs, dash, bak, od) ==
    apply_renames(s, [n \in DOMAIN fs \ cf |-> fs[n]], rm, dash, bak, od \/ cf # {})

planned_outcome(s, rm, present, fs, dash, bak, od) ==
    outcome_of_plan(s, rm, Range(conflicts_of(s, rm, present)), fs, dash, bak, od)

run_outcome(s, order, fs, dash, bak, od) ==
    planned_outcome(s, rename_map_of(s, order, present_names(fs, dash, bak, od)),
                    present_names(fs, dash, bak, od), fs, dash, bak, od)

(***************************************************************************)
(* The starting directories                                                *)
(***************************************************************************)
MaxRuns == 2
MaxEntries == 2

YarnKey == <<"y", "a", "r", "n">>
HomeKey == <<"h", "o", "m", "e">>
AnOldVariant ==
    CHOOSE v \in old_variants : v[14] = EM_DASH /\ v[22] = "/"

BackupKey == <<"b", "a", "k">>

\* the entries a mapping table may hold, in the order in which they are written
EntryList == <<
    Entry(RetailKey, TRUE, "\"", ReportFinalLower),
    Entry(YarnKey, FALSE, "'", ReportFinalUpper),
    Entry(HomeKey, FALSE, "\"", DASHBOARD_FILE),
    Entry(YarnKey, TRUE, "'", NotesTxt),
    Entry(BackupKey, FALSE, "\"", backup_path),
    Entry(HomeKey, FALSE, "'", AnOldVariant) >>

\* the table that holds the entries numbered by I
body_of(I) ==
    [k \in 1..Cardinality(I) |->
        EntryList[CHOOSE i \in I : Cardinality({j \in I : j < i}) = k - 1]]

Bodies == {body_of(I) : I \in {J \in SUBSET DOMAIN EntryList : Cardinality(J) <= MaxEntries}}

Documents == [intro : {"const", "var"}, body : Bodies]

PreviousContent == <<"previous">>

VARIABLES
    files,              \* name -> content, the regular files of the directory
    old_files,          \* name -> content, inside OLD_FILES
    old_dir,            \* OLD_FILES exists
    dashboard,          \* <<>> or <<the document>>
    backup,             \* <<>> or <<the document saved as the backup>>
    pc,                 \* the position of the running script
    script,             \* "fix", "cleanup", "autofix", or "none" before any run
    dry,                \* --dry-run
    rename_map,         \* the dict, as a sequence of <<old, new>>
    conflicts,          \* the list of conflicting targets
    pos,                \* index of the next item of the running loop
    found,              \* start is not None
    dashboard_html,     \* <<>> or <<the document as read>>
    mapping_for_block,  \* set of <<ref, new>>
    renamed,            \* the os.rename calls made, as <<old, destination>>
    pre,                \* the file system when the run started
    runs,               \* the runs started so far, as [script, dry]
    first_write,        \* <<>> or <<the dashboard just before its first write>>
    sx, sy, sz, spc     \* the slugifier on its own

fsvars == <<files, old_files, old_dir, dashboard, backup>>
runvars == <<pc, script, dry, rename_map, conflicts, pos, found, dashboard_html,
             mapping_for_block, renamed>>
histvars == <<pre, runs, first_write>>
svars == <<sx, sy, sz, spc>>
vars == <<fsvars, runvars, histvars, svars>>

snapshot ==
    [files |-> files, old_files |-> old_files, old_dir |-> old_dir,
     dashboard |-> dashboard, backup |-> backup]

Present == present_names(files, dashboard, backup, old_dir)

Init ==
    /\ files \in {[n \in S \cup {NotesTxt} |-> n] : S \in SUBSET HtmlNames}
    /\ old_dir \in BOOLEAN
    /\ old_files = IF old_dir THEN [n \in {ReportSlug} |-> PreviousContent] ELSE <<>>
    /\ dashboard \in {<<>>} \cup {<<d>> : d \in Documents}
    /\ backup = <<>>
    /\ pc = "idle"
    /\ script = "none"
    /\ dry = FALSE
    /\ rename_map = <<>>
    /\ conflicts = <<>>
    /\ pos = 1
    /\ found = FALSE
    /\ dashboard_html = <<>>
    /\ mapping_for_block = {}
    /\ renamed = <<>>
    /\ pre = snapshot
    /\ runs = <<>>
    /\ first_write = <<>>
    /\ sx = <<>> /\ sy = <<>> /\ sz = <<>> /\ spc = "off"

Idle == pc \in {"idle", "done", "fatal", "crashed"}

\* after the rename loop: the dashboard is rewritten when the block was found
after_renames(fnd) == IF fnd THEN "backup" ELSE "done"

(***************************************************************************)
(* fix_dpp_filenames.py and dpp_cleanup.py                                 *)
(***************************************************************************)
\* main() up to the plan: the listing, the fatal check, rename_map, conflicts
StartRun(s, d, order) ==
    /\ runs' = Append(runs, [script |-> s, dry |-> d])
    /\ pre' = snapshot
    /\ script' = s
    /\ dry' = d
    /\ pos' = 1
    /\ found' = FALSE
    /\ dashboard_html' = <<>>
    /\ mapping_for_block' = {}
    /\ renamed' = <<>>
    /\ IF DASHBOARD_FILE \notin html_files(files, dashboard)
       THEN /\ pc' = "fatal"
            /\ rename_map' = <<>>
            /\ conflicts' = <<>>
       ELSE /\ rename_map' = rename_map_of(s, order, Present)
            /\ conflicts' = conflicts_of(s, rename_map', Present)
            /\ pc' = IF needs_quarantine(d, conflicts') THEN "quarantine" ELSE "read"
    /\ UNCHANGED <<fsvars, first_write, svars>>

\* dpp_cleanup.py: one turn of the loop that moves conflicts to OLD_FILES
Quarantine ==
    /\ pc = "quarantine"
    /\ old_dir' = TRUE
    /\ LET c == conflicts[pos]
       IN IF c \notin DOMAIN files
          THEN \* shutil.move raises FileNotFoundError
               /\ pc' = "crashed"
               /\ UNCHANGED <<files, old_files, pos>>
          ELSE /\ old_files' = Put(old_files, quarantine_dst(c, old_files), files[c])
               /\ files' = Remove(files, c)
               /\ pos' = IF pos = Len(conflicts) THEN 1 ELSE pos + 1
               /\ pc' = IF pos = Len(conflicts) THEN "read" ELSE "quarantine"
    /\ UNCHANGED <<dashboard, backup, script, dry, rename_map, conflicts, found,
                   dashboard_html, mapping_for_block, renamed, histvars, svars>>

\* read the dashboard, locate the block, build mapping_for_block; stop when dry
ReadDashboard ==
    /\ pc = "read"
    /\ dashboard_html' = dashboard
    /\ LET fnd == find_dpp_urls_block(dashboard[1])
       IN /\ found' = fnd
          /\ mapping_for_block' =
                IF fnd
                THEN mapping_for_block_of(dashboard[1].body, rename_map, Present)
                ELSE {}
          /\ pc' = IF dry THEN "done"
                   ELSE IF rename_map # <<>> THEN "rename"
                   ELSE after_renames(fnd)
    /\ pos' = 1
    /\ UNCHANGED <<fsvars, script, dry, rename_map, conflicts, renamed, histvars, svars>>

\* one turn of the rename loop
Rename ==
    /\ pc = "rename"
    /\ LET old == rename_map[pos][1]
           dst == destination(script, rename_map[pos][2], Present)
       IN IF old \notin DOMAIN files
          THEN \* os.rename raises FileNotFoundError
               /\ pc' = "crashed"
               /\ UNCHANGED <<files, renamed, pos>>
          ELSE /\ files' = os_rename(files, old, dst)
               /\ renamed' = Append(renamed, <<old, dst>>)
               /\ pos' = IF pos = Len(rename_map) THEN 1 ELSE pos + 1
               /\ pc' = IF pos = Len(rename_map) THEN after_renames(found) ELSE "rename"
    /\ UNCHANGED <<old_files, old_dir, dashboard, backup, script, dry, rename_map,
                   conflicts, found, dashboard_html, mapping_for_block, histvars, svars>>

\* the one-time backup of the dashboard
Backup ==
    /\ pc = "backup"
    /\ backup' = backup_copy(backup, dashboard)
    /\ pc' = "write"
    /\ UNCHANGED <<files, old_files, old_dir, dashboard, script, dry, rename_map,
                   conflicts, pos, found, dashboard_html, mapping_for_block, renamed,
                   histvars, svars>>

\* write the dashboard with the rewritten body
WriteDashboard ==
    /\ pc = "write"
    /\ dashboard' = <<spliced(dashboard_html[1], mapping_for_block)>>
    /\ first_write' = IF first_write = <<>> THEN dashboard ELSE first_write
    /\ pc' = "done"
    /\ UNCHANGED <<files, old_files, old_dir, backup, script, dry, rename_map,
                   conflicts, pos, found, dashboard_html, mapping_for_block, renamed,
                   pre, runs, svars>>

(***************************************************************************)
(* auto_fix_dashboard_mapping.py                                           *)
(***************************************************************************)
AutoFixStart ==
    /\ Idle
    /\ Len(runs) < MaxRuns
    /\ runs' = Append(runs, [script |-> "autofix", dry |-> FALSE])
    /\ pre' = snapshot
    /\ script' = "autofix"
    /\ dry' = FALSE
    /\ rename_map' = <<>>
    /\ conflicts' = <<>>
    /\ pos' = 1
    /\ found' = FALSE
    /\ mapping_for_block' = {}
    /\ renamed' = <<>>
    /\ dashboard_html' = dashboard
    /\ pc' = IF dashboard = <<>> THEN "fatal" ELSE "autofix_backup"
    /\ UNCHANGED <<fsvars, first_write, svars>>

AutoFixBackup ==
    /\ pc = "autofix_backup"
    /\ backup' = backup_copy(backup, dashboard)
    /\ pc' = "autofix_write"
    /\ UNCHANGED <<files, old_files, old_dir, dashboard, script, dry, rename_map,
                   conflicts, pos, found, dashboard_html, mapping_for_block, renamed,
                   histvars, svars>>

AutoFixWrite ==
    /\ pc = "autofix_write"
    /\ LET new_body == auto_fix_body(dashboard_html[1].body)
           changed == new_body # dashboard_html[1].body
       IN IF changed
          THEN /\ dashboard' = <<[dashboard_html[1] EXCEPT !.body = new_body]>>
               /\ first_write' = IF first_write = <<>> THEN dashboard ELSE first_write
          ELSE UNCHANGED <<dashboard, first_write>>
    /\ pc' = "done"
    /\ UNCHANGED <<files, old_files, old_dir, backup, script, dry, rename_map,
                   conflicts, pos, found, dashboard_html, mapping_for_block, renamed,
                   pre, runs, svars>>

RunFix ==
    /\ Idle
    /\ Len(runs) < MaxRuns
    /\ \E d \in BOOLEAN :
          \E order \in Listings(html_files(files, dashboard) \ {DASHBOARD_FILE}) :
              StartRun("fix", d, order)

RunCleanup ==
    /\ Idle
    /\ Len(runs) < MaxRuns
    /\ \E d \in BOOLEAN :
          \E order \in Listings(html_files(files, dashboard) \ {DASHBOARD_FILE}) :
              StartRun("cleanup", d, order)

Next ==
    \/ RunFix
    \/ RunCleanup
    \/ Quarantine
    \/ ReadDashboard
    \/ Rename
    \/ Backup
    \/ WriteDashboard
    \/ AutoFixStart
    \/ AutoFixBackup
    \/ AutoFixWrite

Spec == Init /\ [][Next]_vars

(***************************************************************************)
(* Properties of the runs                                                  *)
(***************************************************************************)
ApplyRun == script \in {"fix", "cleanup"} /\ ~dry
DryRun == script \in {"fix", "cleanup"} /\ dry
InRun == pc \notin {"idle", "fatal", "off"}

Contents(f) == {f[n] : n \in DOMAIN f}
keys(d) == {d[i][1] : i \in DOMAIN d}

\* the body of the mapping table before and after the run that located it
body_before == dashboard_html[1].body
body_after == dashboard[1].body

\* the quoted literals of entry i: its value, and its key when quoted
Literals(body) ==
    {<<i, "val">> : i \in DOMAIN body} \cup {<<i, "key">> : i \in {j \in DOMAIN body : body[j].kq}}
literal(body, l) == IF l[2] = "val" THEN body[l[1]].val ELSE body[l[1]].key

\* C1: after an apply run every file that existed before the run still exists
\* with its content, in the working directory or in the quarantine directory.
C1_NoDataLoss ==
    (ApplyRun /\ pc \in {"done", "crashed"}) =>
        /\ Contents(pre.files) \subseteq Contents(files) \cup Contents(old_files)
        /\ Contents(pre.old_files) \subseteq Contents(old_files)

\* C2: the rename plan has pairwise distinct targets, and no target is the name
\* of a file on disk that is not itself being renamed.
C2_CollisionSafety ==
    (script \in {"fix", "cleanup"} /\ InRun) =>
        /\ \A i, j \in DOMAIN rename_map :
              rename_map[i][2] = rename_map[j][2] => i = j
        /\ \A i \in DOMAIN rename_map :
              rename_map[i][2] \notin
                  present_names(pre.files, pre.dashboard, pre.backup, pre.old_dir)
                  \ keys(rename_map)

\* C3: after an apply run that located the mapping block, every quoted value that
\* was a key of the rename plan equals its planned target, and every other quoted
\* value is unchanged.
C3_ReferentialIntegrity ==
    (ApplyRun /\ pc = "done" /\ found) =>
        \A l \in Literals(body_before) :
            LET v == literal(body_before, l)
                w == literal(body_after, l)
            IN IF has_key(rename_map, v) THEN w = get(rename_map, v) ELSE w = v

\* C4: the second of two apply runs of a script in sequence renames nothing,
\* quarantines nothing and leaves the dashboard as the first run left it.
C4_PipelineIdempotent ==
    (Len(runs) = 2 /\ runs[1] = runs[2] /\ ApplyRun) =>
        /\ files = pre.files
        /\ old_files = pre.old_files
        /\ dashboard = pre.dashboard
        /\ renamed = <<>>

\* C5: a dry run leaves the files, their contents, the dashboard, the backup and
\* the quarantine directory as they were before the run.
C5_DryRunNoMutation ==
    DryRun =>
        /\ files = pre.files
        /\ old_files = pre.old_files
        /\ old_dir = pre.old_dir
        /\ dashboard = pre.dashboard
        /\ backup = pre.backup

\* a dry run of dpp_cleanup.py that ended with pending renames, a conflicting
\* clean-named file and a located mapping block
C5_Witness ==
    /\ DryRun /\ script = "cleanup" /\ pc = "done"
    /\ rename_map # <<>> /\ conflicts # <<>> /\ found /\ mapping_for_block # {}

\* C7: starting without a backup, the backup, whenever it exists, is the dashboard
\* as it was before the first write of any script, and exists from that write on.
C7_BackupIsOriginal ==
    /\ backup # <<>> =>
          backup = (IF first_write # <<>> THEN first_write ELSE dashboard)
    /\ first_write # <<>> => backup # <<>>

\* a second run has rewritten a dashboard that an earlier run had already changed
C7_Witness ==
    /\ Len(runs) = 2 /\ pc = "done"
    /\ first_write # <<>> /\ pre.dashboard # first_write
    /\ dashboard # pre.dashboard
    /\ pre.backup # <<>> /\ backup = first_write

\* C8: an apply run ends in a failure if and only if the dashboard is absent
\* when it starts.
C8_OnlyMissingDashboardFatal ==
    (ApplyRun /\ pc # "idle") =>
        (pc \in {"fatal", "crashed"} <=> pre.dashboard = <<>>)

\* C9: the files an apply run leaves are the same for every order in which the
\* directory listing enumerates the files.
C9_DeterministicResolution ==
    (ApplyRun /\ pc = "done") =>
        \A order \in Listings(html_files(pre.files, pre.dashboard) \ {DASHBOARD_FILE}) :
            run_outcome(script, order, pre.files, pre.dashboard, pre.backup, pre.old_dir)
                = files

\* C10: after an apply run that located the mapping block, every value that named
\* a file this run renamed is the name under which that file's content now is.
C10_MappingFollowsRename ==
    (ApplyRun /\ pc = "done" /\ found) =>
        \A i \in DOMAIN body_before :
            body_before[i].val \in {renamed[j][1] : j \in DOMAIN renamed} =>
                /\ body_after[i].val \in DOMAIN files
                /\ files[body_after[i].val] = pre.files[body_before[i].val]

(***************************************************************************)
(* The slugifier on its own: every name over SlugAlphabet of at most       *)
(* MaxNameLen characters is slugified, and the result slugified again.     *)
(***************************************************************************)
MaxNameLen == 5

SlugAlphabet == {"A", ".", "-", "/", "h", "t", "m", " ", FULLWIDTH_FULL_STOP}

SlugInputs == UNION {[1..n -> SlugAlphabet] : n \in 1..MaxNameLen}

SlugInit ==
    /\ sx \in SlugInputs
    /\ sy = <<>>
    /\ sz = <<>>
    /\ spc = "input"
    /\ files = <<>> /\ old_files = <<>> /\ old_dir = FALSE
    /\ dashboard = <<>> /\ backup = <<>>
    /\ pc = "off" /\ script = "none" /\ dry = FALSE
    /\ rename_map = <<>> /\ conflicts = <<>> /\ pos = 1 /\ found = FALSE
    /\ dashboard_html = <<>> /\ mapping_for_block = {} /\ renamed = <<>>
    /\ pre = <<>> /\ runs = <<>> /\ first_write = <<>>

SlugifyOnce ==
    /\ spc = "input"
    /\ sy' = slugify_filename(sx)
    /\ spc' = "once"
    /\ UNCHANGED <<sx, sz, fsvars, runvars, histvars>>

SlugifyTwice ==
    /\ spc = "once"
    /\ sz' = slugify_filename(sy)
    /\ spc' = "twice"
    /\ UNCHANGED <<sx, sy, fsvars, runvars, histvars>>

SlugNext == SlugifyOnce \/ SlugifyTwice

SlugSpec == SlugInit /\ [][SlugNext]_vars

\* C6: slugify(slugify(x)) = slugify(x) for every file name x.
C6_SlugStable == spc = "twice" => sz = sy

====
